---- MODULE Spec2Model ----
(***************************************************************************)
(* Model of aseprite.py: read_aseprite_file and write_aseprite_file.       *)
(*                                                                         *)
(* A file is a sequence of bytes (0..255), indexed from 1 in TLA+ and from *)
(* 0 in the source; every offset below is the source's 0-based offset.     *)
(* A sprite, a frame, a layer, a tag and a cel are records whose fields    *)
(* are the keys of the source's dicts; an optional key ('palette', 'tags', *)
(* 'layers', 'linked', 'pixels') is a field that may be missing.           *)
(***************************************************************************)
EXTENDS Integers, Sequences, FiniteSets, TLC

\* ---------------------------------------------------------------- bounds
MaxPal == 2
MaxFrames == 2
MaxCels == 1
MaxSynChunks == 2
MaxSizeFrames == 2
MaxSizeCels == 2

\* -------------------------------------------------------- chunk types
LAYER == 8196
CEL == 8197
TAGS == 8216
PALETTE == 8217
USER == 8224

\* ------------------------------------------------------ bytes, struct
Min(a, b) == IF a < b THEN a ELSE b
Max(a, b) == IF a < b THEN b ELSE a

Zeros(n) == [i \in 1..n |-> 0]

\* data[a:b] of the source: both ends are clipped to the buffer.
Slice(d, a, b) == SubSeq(d, Min(a, Len(d)) + 1, Min(b, Len(d)))

\* struct.unpack(fmt, data[p:p+n]) raises struct.error unless the slice has
\* exactly n bytes.
HasBytes(d, p, n) == p + n <= Len(d)

U8(d, p) == d[p + 1]
U16(d, p) == d[p + 1] + 256 * d[p + 2]
U32(d, p) == d[p + 1] + 256 * d[p + 2] + 65536 * d[p + 3] + 16777216 * d[p + 4]
S16(d, p) == IF U16(d, p) >= 32768 THEN U16(d, p) - 65536 ELSE U16(d, p)

\* One field of a struct.pack format: value v, n bytes, signed or not.
Fld(v, n, s) == [v |-> v, n |-> n, s |-> s]
Pow256(n) == IF n = 1 THEN 256 ELSE 65536

\* Every value of the model lies below 2^31, so an unsigned four byte field
\* holds whatever is not negative; a signed field has two bytes.
FldFits(f) ==
  IF f.s THEN f.v >= -32768 /\ f.v < 32768
  ELSE f.v >= 0 /\ (f.n = 4 \/ f.v < Pow256(f.n))

FldBytes(f) ==
  LET u == IF f.v < 0 THEN f.v + 65536 ELSE f.v
  IN  [i \in 1..f.n |->
         IF i = 1 THEN u % 256
         ELSE IF i = 2 THEN (u \div 256) % 256
         ELSE IF i = 3 THEN (u \div 65536) % 256
         ELSE (u \div 16777216) % 256]

RECURSIVE Pack(_)
Pack(fs) == IF fs = <<>> THEN <<>> ELSE FldBytes(Head(fs)) \o Pack(Tail(fs))

\* struct.pack raises struct.error when a value is out of its field's range.
PackFits(fs) == \A i \in 1..Len(fs) : FldFits(fs[i])

\* --------------------------------------------------------------- utf-8
\* A str is a sequence of code points; the model carries code points below
\* 0x800, encoded on one or two bytes.
Utf8Char(c) == IF c < 128 THEN <<c>> ELSE <<192 + (c \div 64), 128 + (c % 64)>>

RECURSIVE Utf8Encode(_)
Utf8Encode(s) == IF s = <<>> THEN <<>> ELSE Utf8Char(Head(s)) \o Utf8Encode(Tail(s))

\* The code points of b, with -1 in place of the first byte that is not the
\* start of a one or two byte form.  Lead bytes of three and four byte forms
\* are not produced by the inputs of this model and are rejected.
RECURSIVE Utf8Points(_)
Utf8Points(b) ==
  IF b = <<>> THEN <<>>
  ELSE IF b[1] < 128 THEN <<b[1]>> \o Utf8Points(Tail(b))
  ELSE IF b[1] >= 194 /\ b[1] <= 223 /\ Len(b) >= 2 /\ b[2] >= 128 /\ b[2] <= 191
       THEN <<(b[1] - 192) * 64 + (b[2] - 128)>> \o Utf8Points(SubSeq(b, 3, Len(b)))
  ELSE <<-1>>

\* bytes.decode("utf-8"): [ok, s]; ok is FALSE where the source raises
\* UnicodeDecodeError.
Utf8Decode(b) ==
  LET s == Utf8Points(b)
  IN  [ok |-> \A i \in 1..Len(s) : s[i] # -1, s |-> s]

\* ---------------------------------------------------------------- zlib
\* zlib is a library; the model keeps what the source relies on: a stream
\* starts with a header byte, carries its own length and ends with a
\* checksum; decompress(compress(p)) = p; a stream that is cut short or
\* whose header or checksum is wrong raises zlib.error; bytes after the end
\* of the stream are ignored.
ZlibHeader == 120

RECURSIVE SumBytes(_)
SumBytes(p) == IF p = <<>> THEN 0 ELSE Head(p) + SumBytes(Tail(p))

ZCheck(p) == (1 + SumBytes(p)) % 251

zlib_compress(p) == <<ZlibHeader, Len(p)>> \o p \o <<ZCheck(p)>>

zlib_decompress(b) ==
  IF /\ Len(b) >= 3
     /\ b[1] = ZlibHeader
     /\ Len(b) >= b[2] + 3
     /\ b[b[2] + 3] = ZCheck(SubSeq(b, 3, b[2] + 2))
  THEN [ok |-> TRUE, pixels |-> SubSeq(b, 3, b[2] + 2)]
  ELSE [ok |-> FALSE, pixels |-> <<>>]

\* ------------------------------------------------------------- records
\* d[k] = v of a dict: adds the key or replaces its value.
SetKey(d, k, v) == [x \in DOMAIN d \cup {k} |-> IF x = k THEN v ELSE d[x]]
HasKey(d, k) == k \in DOMAIN d

\* --------------------------------------------------------------- state
VARIABLES
  wsprite,     \* write_aseprite_file: the sprite argument
  wdata,       \* write_aseprite_file: data, the bytes written so far
  wcap,        \* write_aseprite_file: len(data)
  wptr,        \* write_aseprite_file: ptr
  wframe,      \* write_aseprite_file: index of the next frame of the loop
  wpc,         \* write_aseprite_file: position
  file,        \* the bytes of the file at path
  data,        \* read_aseprite_file: data
  ptr,         \* read_aseprite_file: ptr
  sprite,      \* read_aseprite_file: sprite
  frames,      \* read_aseprite_file: frames (header count)
  frame_i,     \* read_aseprite_file: frame_i
  frame,       \* read_aseprite_file: frame
  chunks,      \* read_aseprite_file: chunks
  chunk,       \* read_aseprite_file: chunk
  chunk_type,  \* read_aseprite_file: chunk_type of the last chunk
  next_chunk,  \* read_aseprite_file: next_chunk of the last chunk
  pc,          \* read_aseprite_file: position
  err,         \* the exception raised by either function, or "none"
  round,       \* number of completed write/read round trips
  first,       \* the sprite read back by the first round trip
  input,       \* where the bytes being read come from
  zsprite,     \* write_aseprite_file by sizes: the sizes of the sprite argument
  zptr,        \* write_aseprite_file by sizes: ptr
  zcap,        \* write_aseprite_file by sizes: len(data)
  zframe,      \* write_aseprite_file by sizes: index of the next frame of the loop
  zpc          \* write_aseprite_file by sizes: position

wvars == <<wsprite, wdata, wcap, wptr, wframe, wpc, file>>
rvars == <<data, ptr, sprite, frames, frame_i, frame, chunks, chunk, chunk_type, next_chunk, pc>>
hvars == <<round, first, input>>
zvars == <<zsprite, zptr, zcap, zframe, zpc>>
vars == <<wvars, rvars, err, hvars, zvars>>

NoSprite == [none |-> TRUE]
NoFrame == [none |-> TRUE]

\* ------------------------------------------------- read_aseprite_file
\* An exception leaves read_aseprite_file: nothing is returned.
ReadRaise(e) ==
  /\ pc' = "error"
  /\ err' = e
  /\ UNCHANGED <<data, ptr, sprite, frames, frame_i, frame, chunks, chunk, chunk_type, next_chunk>>

\* Lines 60-85: read the file, unpack the header, initialise the sprite.
ReadHeader ==
  /\ pc = "header"
  /\ UNCHANGED <<wvars, hvars, zvars>>
  /\ data' = file
  /\ IF ~HasBytes(file, 0, 36)
     THEN /\ pc' = "error"
          /\ err' = "struct.error"
          /\ UNCHANGED <<ptr, sprite, frames, frame_i, frame, chunks, chunk, chunk_type, next_chunk>>
     ELSE
       /\ sprite' = [name |-> "x",
                     w |-> U16(file, 8),
                     h |-> U16(file, 10),
                     trans |-> U8(file, 28),
                     frames |-> <<>>,
                     layers |-> <<>>,
                     speed |-> U16(file, 18),
                     indexed |-> (U16(file, 12) = 8)]
       /\ frames' = U16(file, 6)
       /\ ptr' = 128
       /\ frame_i' = 0
       /\ pc' = "frame"
       /\ UNCHANGED <<frame, chunks, chunk, chunk_type, next_chunk, err>>

\* Lines 96-98: the chunk count of a frame record at offset p.
FrameChunks(d, p) == IF U8(d, p + 10) = 0 THEN U16(d, p + 6) ELSE U8(d, p + 10)

\* Lines 90-108: one pass of the frame loop up to the chunk loop.
ReadFrame ==
  /\ pc = "frame"
  /\ frame_i < frames
  /\ UNCHANGED <<wvars, hvars, zvars>>
  /\ IF ~HasBytes(data, ptr, 16) THEN ReadRaise("struct.error")
     ELSE IF U16(data, ptr + 4) # 61946 THEN ReadRaise("AssertionError")
     ELSE
       /\ chunks' = FrameChunks(data, ptr)
       /\ frame' = [duration |-> U16(data, ptr + 8), cels |-> <<>>]
       /\ ptr' = ptr + 16
       /\ chunk' = 0
       /\ pc' = "chunk"
       /\ UNCHANGED <<data, sprite, frames, frame_i, chunk_type, next_chunk, err>>

\* The result of a chunk handler: the exception it raised or the sprite, the
\* frame and the cursor it leaves.
HOk(s, f, p) == [ok |-> TRUE, err |-> "none", sprite |-> s, frame |-> f, ptr |-> p]
HErr(e) == [ok |-> FALSE, err |-> e, sprite |-> NoSprite, frame |-> NoFrame, ptr |-> 0]

\* Lines 118-128.
ReadPalette(d, p, s, f) ==
  IF ~HasBytes(d, p, 12) THEN HErr("struct.error")
  ELSE LET pal_size == U32(d, p)
       IN  IF pal_size > 0 /\ ~HasBytes(d, p + 20, 6 * pal_size) THEN HErr("struct.error")
           ELSE HOk(SetKey(s, "palette",
                           [pe \in 1..pal_size |->
                              <<U8(d, p + 20 + 6 * (pe - 1) + 2), U8(d, p + 20 + 6 * (pe - 1) + 3),
                                U8(d, p + 20 + 6 * (pe - 1) + 4), U8(d, p + 20 + 6 * (pe - 1) + 5)>>]),
                    f, p + 20 + 6 * pal_size)

\* Lines 130-149.
ReadLayer(d, p, s, f) ==
  IF ~HasBytes(d, p, 18) THEN HErr("struct.error")
  ELSE LET name_size == U16(d, p + 16)
           name == Utf8Decode(Slice(d, p + 18, p + 18 + name_size))
       IN  IF ~name.ok THEN HErr("UnicodeDecodeError")
           ELSE HOk([s EXCEPT !.layers = Append(@, [flags |-> U16(d, p),
                                                      type |-> U16(d, p + 2),
                                                      child_level |-> U16(d, p + 4),
                                                      blend_mode |-> U16(d, p + 10),
                                                      opacity |-> U8(d, p + 12),
                                                      name |-> name.s])],
                    f, p + 18 + name_size)

\* Lines 159-174: one pass of the tag loop from the state t it is given.
ReadTag(d, t) ==
  IF ~t.ok THEN t
  ELSE IF ~HasBytes(d, t.ptr, 5) \/ ~HasBytes(d, t.ptr + 17, 2) THEN [t EXCEPT !.ok = FALSE, !.err = "struct.error"]
  ELSE LET name_size == U16(d, t.ptr + 17)
           name == Utf8Decode(Slice(d, t.ptr + 19, t.ptr + 19 + name_size))
       IN  IF ~name.ok THEN [t EXCEPT !.ok = FALSE, !.err = "UnicodeDecodeError"]
           ELSE [t EXCEPT !.ptr = t.ptr + 19 + name_size,
                          !.tags = Append(@, [name |-> name.s,
                                              from |-> U16(d, t.ptr),
                                              to |-> U16(d, t.ptr + 2),
                                              loop_dir |-> U8(d, t.ptr + 4)])]

\* Lines 158-174: the tag loop, n tags to read from offset p.
ReadTagLoop(d, p, n) ==
  LET loop[i \in 0..n] ==
        IF i = 0 THEN [ok |-> TRUE, err |-> "none", tags |-> <<>>, ptr |-> p]
        ELSE ReadTag(d, loop[i - 1])
  IN  loop[n]

\* Lines 151-174.
ReadTags(d, p, s, f) ==
  IF ~HasBytes(d, p, 2) THEN HErr("struct.error")
  ELSE LET r == ReadTagLoop(d, p + 10, U16(d, p))
       IN  IF ~r.ok THEN HErr(r.err)
           ELSE HOk(SetKey(s, "tags", r.tags), f, r.ptr)

\* Lines 176-215; nxt is next_chunk.
ReadCel(d, p, nxt, s, f) ==
  IF ~HasBytes(d, p, 9) THEN HErr("struct.error")
  ELSE
    LET cel == [layer |-> U16(d, p), x |-> S16(d, p + 2), y |-> S16(d, p + 4), opacity |-> U8(d, p + 6)]
        cel_type == U16(d, p + 7)
        q == p + 16
    IN  IF cel_type = 0 THEN
          IF ~HasBytes(d, q, 4) THEN HErr("struct.error")
          ELSE HOk(s, [f EXCEPT !.cels = Append(@,
                         SetKey(SetKey(SetKey(cel, "w", U16(d, q)), "h", U16(d, q + 2)),
                                "pixels", Slice(d, q + 4, nxt)))],
                   q + 4)
        ELSE IF cel_type = 1 THEN
          IF ~HasBytes(d, q, 2) THEN HErr("struct.error")
          ELSE HOk(s, [f EXCEPT !.cels = Append(@, SetKey(cel, "linked", U16(d, q)))], q + 2)
        ELSE IF cel_type = 2 THEN
          IF ~HasBytes(d, q, 4) THEN HErr("struct.error")
          ELSE LET z == zlib_decompress(Slice(d, q + 4, nxt))
               IN  IF ~z.ok THEN HErr("zlib.error")
                   ELSE HOk(s, [f EXCEPT !.cels = Append(@,
                                  SetKey(SetKey(SetKey(cel, "w", U16(d, q)), "h", U16(d, q + 2)),
                                         "pixels", z.pixels))],
                            q + 4)
        ELSE HOk(s, [f EXCEPT !.cels = Append(@, cel)], q)

\* Lines 118-215: the dispatch on chunk_type; p is the offset after the
\* chunk record.
ReadDispatch(d, ctype, p, nxt, s, f) ==
  IF ctype = PALETTE THEN ReadPalette(d, p, s, f)
  ELSE IF ctype = LAYER THEN ReadLayer(d, p, s, f)
  ELSE IF ctype = TAGS THEN ReadTags(d, p, s, f)
  ELSE IF ctype = CEL THEN ReadCel(d, p, nxt, s, f)
  ELSE HOk(s, f, p)

\* The cursor stays where the handler left it.
ChunkEndOfHandler(handler_ptr, nxt) == handler_ptr

\* Line 217: the cursor after a chunk, given the handler's cursor and
\* next_chunk.
ChunkEnd(handler_ptr, nxt) == nxt

\* Lines 112-217: one pass of the chunk loop.
ReadChunk ==
  /\ pc = "chunk"
  /\ chunk < chunks
  /\ UNCHANGED <<wvars, hvars, zvars>>
  /\ IF ~HasBytes(data, ptr, 6) THEN ReadRaise("struct.error")
     ELSE LET chunk_size == U32(data, ptr)
              ctype == U16(data, ptr + 4)
              nxt == ptr + chunk_size
              r == ReadDispatch(data, ctype, ptr + 6, nxt, sprite, frame)
          IN  IF ~r.ok THEN ReadRaise(r.err)
              ELSE /\ sprite' = r.sprite
                   /\ frame' = r.frame
                   /\ ptr' = ChunkEnd(r.ptr, nxt)
                   /\ chunk_type' = ctype
                   /\ next_chunk' = nxt
                   /\ chunk' = chunk + 1
                   /\ UNCHANGED <<data, frames, frame_i, chunks, pc, err>>

\* Line 219: the chunk loop is over, the frame joins the sprite.
ReadFrameEnd ==
  /\ pc = "chunk"
  /\ chunk >= chunks
  /\ sprite' = [sprite EXCEPT !.frames = Append(@, frame)]
  /\ frame_i' = frame_i + 1
  /\ pc' = "frame"
  /\ UNCHANGED <<data, ptr, frames, frame, chunks, chunk, chunk_type, next_chunk, err>>
  /\ UNCHANGED <<wvars, hvars, zvars>>

\* Line 221: the frame loop is over, the sprite is returned.
ReadReturn ==
  /\ pc = "frame"
  /\ frame_i >= frames
  /\ pc' = "done"
  /\ UNCHANGED <<data, ptr, sprite, frames, frame_i, frame, chunks, chunk, chunk_type, next_chunk, err>>
  /\ UNCHANGED <<wvars, hvars, zvars>>

\* ------------------------------------------------- write_aseprite_file
\* Line 237: the length of the preallocated bytearray.
BufSize == 102400

H(v) == Fld(v, 2, FALSE)
Hs(v) == Fld(v, 2, TRUE)
B(v) == Fld(v, 1, FALSE)
I(v) == Fld(v, 4, FALSE)

\* The writer's locals between two statements: the bytearray as the bytes b
\* up to the highest offset written (every later byte is zero) and its
\* length cap, the cursor ptr, chunk_count, and the exception raised if any.
WState(b, cap, p) == [ok |-> TRUE, err |-> "none", b |-> b, cap |-> cap, ptr |-> p, count |-> 0]
WFail(st, e) == [st EXCEPT !.ok = FALSE, !.err = e]

\* The bytes b with bs stored at offset off.
Put(b, off, bs) ==
  SubSeq(b, 1, Min(off, Len(b))) \o Zeros(off - Len(b)) \o bs \o SubSeq(b, off + Len(bs) + 1, Len(b))

\* struct.pack_into(fmt, data, off, ...): raises struct.error when a value
\* does not fit its field or the bytearray is shorter than off + size.
PackInto(st, off, fs) ==
  IF ~st.ok THEN st
  ELSE IF ~PackFits(fs) \/ off + Len(Pack(fs)) > st.cap THEN WFail(st, "struct.error")
  ELSE [st EXCEPT !.b = Put(st.b, off, Pack(fs))]

\* ptr += n
Skip(st, n) == IF ~st.ok THEN st ELSE [st EXCEPT !.ptr = @ + n]

\* data[ptr:ptr+n] = bs: the slice is clipped to the bytearray and replaced
\* by bs whatever its length, so the bytearray grows when bs is longer.
SliceAssign(st, n, bs) ==
  IF ~st.ok THEN st
  ELSE LET lo == Min(st.ptr, st.cap)
           hi == Min(st.ptr + n, st.cap)
           full == st.b \o Zeros(lo - Len(st.b))
       IN  [st EXCEPT !.b = SubSeq(full, 1, lo) \o bs \o SubSeq(full, hi + 1, Len(full)),
                      !.cap = st.cap - (hi - lo) + Len(bs)]

\* The size of a chunk without its own size field.
ChunkSizeOfRest(p, chunk_size_ptr) == p - (chunk_size_ptr + 4)

\* Lines 272, 291, 308, 334: the value patched into a chunk's size field.
ChunkSize(p, chunk_size_ptr) == p - chunk_size_ptr

\* Line 339: the value patched into a frame's size field.
FrameSize(p, frame_size_ptr) == p - frame_size_ptr

PatchChunk(st, chunk_size_ptr) ==
  LET t == PackInto(st, chunk_size_ptr, <<I(ChunkSize(st.ptr, chunk_size_ptr))>>)
  IN  IF ~t.ok THEN t ELSE [t EXCEPT !.count = @ + 1]

\* Line 269: one palette entry.
PaletteEntry(p) == <<H(0), B(p[1]), B(p[2]), B(p[3]), B(255)>>

\* Lines 269-270.
WritePaletteEntry(st, p) == Skip(PackInto(st, st.ptr, PaletteEntry(p)), 6)

\* Lines 268-270.
WritePaletteLoop(st, pal) ==
  LET loop[i \in 0..Len(pal)] ==
        IF i = 0 THEN st
        ELSE WritePaletteEntry(loop[i - 1], pal[i])
  IN  loop[Len(pal)]

\* Lines 263-273.
WritePalette(st, s) ==
  LET chunk_size_ptr == st.ptr
      a == Skip(st, 4)
      b == Skip(PackInto(a, a.ptr, <<H(PALETTE), I(Len(s.palette)), I(0), I(Len(s.palette) - 1)>>), 14 + 8)
  IN  PatchChunk(WritePaletteLoop(b, s.palette), chunk_size_ptr)

\* Lines 284-289: one tag.
WriteTag(st, t) ==
  LET a == Skip(PackInto(st, st.ptr, <<H(t.from), H(t.to), B(t.loop_dir)>>), 5 + 8 + 3 + 1)
      b == Skip(PackInto(a, a.ptr, <<H(Len(t.name))>>), 2)
  IN  Skip(SliceAssign(b, Len(t.name), Utf8Encode(t.name)), Len(t.name))

\* Lines 283-289.
WriteTagLoop(st, tags) ==
  LET loop[i \in 0..Len(tags)] == IF i = 0 THEN st ELSE WriteTag(loop[i - 1], tags[i])
  IN  loop[Len(tags)]

\* Lines 278-292.
WriteTags(st, s) ==
  LET chunk_size_ptr == st.ptr
      a == Skip(st, 4)
      b == Skip(PackInto(a, a.ptr, <<H(TAGS), H(Len(s.tags))>>), 4 + 8)
  IN  PatchChunk(WriteTagLoop(b, s.tags), chunk_size_ptr)

\* Lines 296-309: one layer chunk.
WriteLayer(st, layer) ==
  LET chunk_size_ptr == st.ptr
      a == Skip(st, 4)
      b == Skip(PackInto(a, a.ptr, <<H(LAYER)>>), 2)
      c == Skip(PackInto(b, b.ptr, <<H(layer.flags), H(layer.type), H(layer.child_level),
                                     H(0), H(0), H(layer.blend_mode), B(layer.opacity)>>), 13 + 3)
      d == Skip(PackInto(c, c.ptr, <<H(Len(layer.name))>>), 2)
      e == Skip(SliceAssign(d, Len(layer.name), Utf8Encode(layer.name)), Len(layer.name))
  IN  PatchChunk(e, chunk_size_ptr)

\* Lines 295-309.
WriteLayers(st, layers) ==
  LET loop[i \in 0..Len(layers)] == IF i = 0 THEN st ELSE WriteLayer(loop[i - 1], layers[i])
  IN  loop[Len(layers)]

\* Lines 260-309: what the first frame emits before its cels.
WriteFirst(st, s) ==
  LET a == IF s.indexed THEN WritePalette(st, s) ELSE st
      b == IF HasKey(s, "tags") THEN WriteTags(a, s) ELSE a
  IN  IF HasKey(s, "layers") THEN WriteLayers(b, s.layers) ELSE b

\* Lines 317-320.
CelType(cel) == IF HasKey(cel, "linked") THEN 1 ELSE 2

\* Lines 314-335: one cel chunk.
WriteCel(st, cel) ==
  LET chunk_size_ptr == st.ptr
      cel_type == CelType(cel)
      a == Skip(st, 4)
      b == Skip(PackInto(a, a.ptr, <<H(CEL), H(cel.layer), Hs(cel.x), Hs(cel.y),
                                     B(cel.opacity), H(cel_type)>>), 11 + 7)
      c == IF cel_type = 1 THEN Skip(PackInto(b, b.ptr, <<H(cel.linked)>>), 2)
           ELSE IF ~b.ok THEN b
           ELSE IF ~HasKey(cel, "w") \/ ~HasKey(cel, "h") \/ ~HasKey(cel, "pixels")
                THEN WFail(b, "KeyError")
           ELSE LET d == Skip(PackInto(b, b.ptr, <<H(cel.w), H(cel.h)>>), 4)
                    compressed == zlib_compress(cel.pixels)
                IN  Skip(SliceAssign(d, Len(compressed), compressed), Len(compressed))
  IN  PatchChunk(c, chunk_size_ptr)

\* Lines 313-335.
WriteCels(st, cels) ==
  LET loop[i \in 0..Len(cels)] == IF i = 0 THEN st ELSE WriteCel(loop[i - 1], cels[i])
  IN  loop[Len(cels)]

\* Lines 252-341: one pass of the frame loop.
WriteFrameBody(st, s, fr, first_frame) ==
  LET frame_size_ptr == st.ptr
      a == Skip(st, 4)
      b == PackInto(a, a.ptr, <<H(61946), H(0), H(fr.duration), B(0), B(0), I(0)>>)
      chunk_count_ptr == a.ptr + 2
      c == Skip(b, 12)
      d == IF first_frame THEN WriteFirst(c, s) ELSE c
      e == WriteCels(d, fr.cels)
      f == PackInto(e, chunk_count_ptr, <<H(e.count)>>)
  IN  PackInto(f, frame_size_ptr, <<I(FrameSize(f.ptr, frame_size_ptr))>>)

WriteRaise(e) ==
  /\ wpc' = "error"
  /\ err' = e
  /\ UNCHANGED <<wsprite, wdata, wcap, wptr, wframe, file>>

\* Lines 237-247: allocate the bytearray and pack the header.
WriteHeader ==
  /\ wpc = "header"
  /\ UNCHANGED <<rvars, hvars, zvars>>
  /\ IF ~HasKey(wsprite, "palette") THEN WriteRaise("KeyError")
     ELSE LET cdepth == IF wsprite.indexed THEN 8 ELSE 32
              st == PackInto(WState(<<>>, BufSize, 4), 4,
                      <<H(42464), H(Len(wsprite.frames)), H(wsprite.w), H(wsprite.h), H(cdepth),
                        I(1), H(wsprite.speed), I(0), I(0), B(wsprite.trans), B(0), B(0), B(0),
                        H(Len(wsprite.palette)), B(0), B(0)>>)
          IN  IF ~st.ok THEN WriteRaise(st.err)
              ELSE /\ wdata' = st.b
                   /\ wcap' = st.cap
                   /\ wptr' = st.ptr + 124
                   /\ wframe' = 1
                   /\ wpc' = "frames"
                   /\ UNCHANGED <<wsprite, file, err>>

\* Lines 251-341: one pass of the frame loop.
WriteFrame ==
  /\ wpc = "frames"
  /\ wframe <= Len(wsprite.frames)
  /\ UNCHANGED <<rvars, hvars, zvars>>
  /\ LET st == WriteFrameBody(WState(wdata, wcap, wptr), wsprite, wsprite.frames[wframe], wframe = 1)
     IN  IF ~st.ok THEN WriteRaise(st.err)
         ELSE /\ wdata' = st.b
              /\ wcap' = st.cap
              /\ wptr' = st.ptr
              /\ wframe' = wframe + 1
              /\ UNCHANGED <<wsprite, wpc, file, err>>

\* Lines 344-348: patch the total size and write data[:ptr] to the file.
WriteFile ==
  /\ wpc = "frames"
  /\ wframe > Len(wsprite.frames)
  /\ UNCHANGED <<rvars, hvars, zvars>>
  /\ LET st == PackInto(WState(wdata, wcap, wptr), 0, <<I(wptr)>>)
     IN  IF ~st.ok THEN WriteRaise(st.err)
         ELSE /\ wdata' = st.b
              /\ file' = SubSeq(st.b \o Zeros(wptr - Len(st.b)), 1, Min(wptr, wcap))
              /\ wpc' = "written"
              /\ UNCHANGED <<wsprite, wcap, wptr, wframe, err>>

\* -------------------------------------------------------------- inputs
SeqsUpTo(S, n) == UNION {[1..k -> S] : k \in 0..n}

RECURSIVE Concat(_)
Concat(ss) == IF ss = <<>> THEN <<>> ELSE Head(ss) \o Concat(Tail(ss))

\* Sprites handed to write_aseprite_file.
PalEntries == {<<0, 0, 0, 255>>, <<1, 2, 3, 7>>}
Palettes == SeqsUpTo(PalEntries, MaxPal) \ {<<>>}

NameBg == <<98, 103>>
NameAccent == <<233, 98>>
LayerOf(name) == [flags |-> 1, type |-> 0, child_level |-> 0, blend_mode |-> 0, opacity |-> 255, name |-> name]
TagOf(name) == [name |-> name, from |-> 0, to |-> 1, loop_dir |-> 2]

PixelsOf(indexed) == IF indexed THEN <<0, 1>> ELSE <<1, 2, 3, 255, 0, 0, 0, 0>>
PixelCel(indexed) == [layer |-> 0, x |-> -1, y |-> 2, opacity |-> 255, w |-> 2, h |-> 1, pixels |-> PixelsOf(indexed)]
LinkedCel == [layer |-> 0, x |-> 0, y |-> 0, opacity |-> 128, linked |-> 0]

FrameOf(cels) == [duration |-> 100, cels |-> cels]
FrameLists(indexed) ==
  {fs \in SeqsUpTo({FrameOf(cs) : cs \in SeqsUpTo({PixelCel(indexed), LinkedCel}, MaxCels)}, MaxFrames) :
     /\ fs # <<>>
     /\ \A i \in 1..Len(fs[1].cels) : ~HasKey(fs[1].cels[i], "linked")}

Optional(name, values) == {<<>>} \cup {name :> v : v \in values}

\* The palettes are tried on one sprite and the frames, tags and layers with
\* one palette.
SpriteOf(ix, pal, fs) ==
  [w |-> 2, h |-> 1, speed |-> 100, trans |-> 0, indexed |-> ix, palette |-> pal, frames |-> fs]

SpritesOf(ix) ==
  {SpriteOf(ix, pal, <<FrameOf(<<PixelCel(ix)>>)>>) @@ ("layers" :> <<LayerOf(NameBg)>>) : pal \in Palettes}
  \cup
  {SpriteOf(ix, <<<<1, 2, 3, 7>>>>, fs) @@ tg @@ ly :
     fs \in FrameLists(ix),
     tg \in Optional("tags", {<<TagOf(NameBg)>>}),
     ly \in Optional("layers", {<<LayerOf(NameBg)>>, <<LayerOf(NameAccent)>>})}

Sprites == SpritesOf(TRUE) \cup SpritesOf(FALSE)

\* Files built by hand, chunk by chunk.
SynHeader(nframes, cdepth) ==
  Pack(<<I(0), H(42464), H(nframes), H(2), H(1), H(cdepth), I(1), H(100), I(0), I(0),
         B(0), B(0), B(0), B(0), H(0), B(0), B(0)>>) \o Zeros(92)

SynChunk(type, payload) == Pack(<<I(6 + Len(payload)), H(type)>>) \o payload

SynCel(cel_type, rest) ==
  SynChunk(CEL, Pack(<<H(0), Hs(-1), Hs(2), B(255), H(cel_type)>>) \o Zeros(7) \o rest)

SynChunks ==
  { SynChunk(PALETTE, Pack(<<I(1), I(0), I(0)>>) \o Zeros(8) \o Pack(<<H(0), B(9), B(8), B(7), B(6)>>)),
    SynChunk(USER, <<1, 2, 3>>),
    SynCel(0, Pack(<<H(2), H(1)>>) \o <<0, 1>>),
    SynCel(1, Pack(<<H(0)>>)),
    SynCel(2, Pack(<<H(2), H(1)>>) \o zlib_compress(<<0, 1>>)),
    SynCel(2, Pack(<<H(2), H(1)>>) \o zlib_compress(<<0, 1, 1>>)),
    SynCel(2, Pack(<<H(2), H(1)>>) \o <<ZlibHeader, 2, 0, 1, 99>>),
    SynCel(3, <<>>) }

\* The chunk count fields of a frame record holding n chunks: old count,
\* the byte at offset 10, new count.
CountFields(n) == {<<n, 0, 0>>, <<n, 0, n>>, <<1, 0, n>>, <<n, 1, 0>>}

SynFrame(counts, cs) ==
  Pack(<<I(16 + Len(Concat(cs))), H(61946), H(counts[1]), H(100), B(counts[2]), B(0), I(counts[3])>>)
  \o Concat(cs)

SynFiles ==
  UNION {{SynHeader(1, 8) \o SynFrame(counts, cs) : counts \in CountFields(Len(cs))} :
           cs \in SeqsUpTo(SynChunks, MaxSynChunks)}

\* How many bytes are cut off a file's end.
Cuts == {1}

\* ------------------------------------------------------------- callers
\* read_aseprite_file(path) is called on the file just written.
CallRead ==
  /\ wpc = "written"
  /\ pc = "idle"
  /\ pc' = "header"
  /\ UNCHANGED <<data, ptr, sprite, frames, frame_i, frame, chunks, chunk, chunk_type, next_chunk>>
  /\ UNCHANGED <<wvars, err, hvars, zvars>>

\* write_aseprite_file(path, sprite) is called on the sprite just read.
CallWrite ==
  /\ pc = "done"
  /\ input = "written"
  /\ round = 0
  /\ wsprite' = sprite
  /\ first' = sprite
  /\ round' = 1
  /\ wpc' = "header"
  /\ pc' = "idle"
  /\ UNCHANGED <<wdata, wcap, wptr, wframe, file, input, err, zvars>>
  /\ UNCHANGED <<data, ptr, sprite, frames, frame_i, frame, chunks, chunk, chunk_type, next_chunk>>

\* A file loses its last k bytes before it is read.
Truncate ==
  /\ pc = "header"
  /\ round = 0
  /\ input # "truncated"
  /\ \E k \in Cuts :
       /\ k < Len(file)
       /\ file' = SubSeq(file, 1, Len(file) - k)
  /\ input' = "truncated"
  /\ UNCHANGED <<wsprite, wdata, wcap, wptr, wframe, wpc, rvars, err, round, first, zvars>>

ZIdle ==
  /\ zsprite = NoSprite /\ zptr = 0 /\ zcap = 0 /\ zframe = 0 /\ zpc = "idle"

RIdle ==
  /\ data = <<>> /\ ptr = 0 /\ sprite = NoSprite /\ frames = 0 /\ frame_i = 0
  /\ frame = NoFrame /\ chunks = 0 /\ chunk = 0 /\ chunk_type = 0 /\ next_chunk = 0

WIdle ==
  /\ wdata = <<>> /\ wcap = 0 /\ wptr = 0 /\ wframe = 0

Init ==
  /\ RIdle /\ WIdle /\ ZIdle
  /\ err = "none" /\ round = 0 /\ first = NoSprite
  /\ \/ /\ wsprite \in Sprites
        /\ wpc = "header"
        /\ file = <<>>
        /\ pc = "idle"
        /\ input = "written"
     \/ /\ wsprite = NoSprite
        /\ wpc = "idle"
        /\ file \in SynFiles
        /\ pc = "header"
        /\ input = "synthetic"

Next ==
  \/ WriteHeader \/ WriteFrame \/ WriteFile
  \/ CallRead \/ Truncate
  \/ ReadHeader \/ ReadFrame \/ ReadChunk \/ ReadFrameEnd \/ ReadReturn
  \/ CallWrite

Spec == Init /\ [][Next]_vars

\* ---------------------------------------- write_aseprite_file by sizes
\* The same function with the contents of the bytearray left out: only the
\* cursor and the length of the bytearray are kept, so a sprite may be as
\* large as the bytearray.  A sprite is given by its sizes: the palette
\* length, for each tag and layer name its length in characters n and in
\* utf-8 bytes m, and for each cel 0 when it is linked or else the length of
\* its compressed pixels.
SizeState(cap, p) == [ok |-> TRUE, cap |-> cap, ptr |-> p]

\* struct.pack_into of n bytes at offset off.
SizePackInto(st, off, n) ==
  IF ~st.ok THEN st
  ELSE IF off + n > st.cap THEN [st EXCEPT !.ok = FALSE]
  ELSE st

SizeSkip(st, n) == IF ~st.ok THEN st ELSE [st EXCEPT !.ptr = @ + n]

\* data[ptr:ptr+n] = m bytes.
SizeSliceAssign(st, n, m) ==
  IF ~st.ok THEN st
  ELSE LET lo == Min(st.ptr, st.cap)
           hi == Min(st.ptr + n, st.cap)
       IN  [st EXCEPT !.cap = st.cap - (hi - lo) + m]

\* Lines 263-273.
SizePalette(st, npal) ==
  LET chunk_size_ptr == st.ptr
      a == SizeSkip(st, 4)
      b == SizeSkip(SizePackInto(a, a.ptr, 14), 14 + 8)
      loop[i \in 0..npal] == IF i = 0 THEN b ELSE SizeSkip(SizePackInto(loop[i - 1], b.ptr + 6 * (i - 1), 6), 6)
  IN  SizePackInto(loop[npal], chunk_size_ptr, 4)

\* Lines 284-289.
SizeTag(st, name) ==
  LET a == SizeSkip(SizePackInto(st, st.ptr, 5), 5 + 8 + 3 + 1)
      b == SizeSkip(SizePackInto(a, a.ptr, 2), 2)
  IN  SizeSkip(SizeSliceAssign(b, name.n, name.m), name.n)

\* Lines 278-292.
SizeTags(st, tags) ==
  LET chunk_size_ptr == st.ptr
      a == SizeSkip(st, 4)
      b == SizeSkip(SizePackInto(a, a.ptr, 4), 4 + 8)
      loop[i \in 0..Len(tags)] == IF i = 0 THEN b ELSE SizeTag(loop[i - 1], tags[i])
  IN  SizePackInto(loop[Len(tags)], chunk_size_ptr, 4)

\* Lines 296-309.
SizeLayer(st, name) ==
  LET chunk_size_ptr == st.ptr
      a == SizeSkip(st, 4)
      b == SizeSkip(SizePackInto(a, a.ptr, 2), 2)
      c == SizeSkip(SizePackInto(b, b.ptr, 13), 13 + 3)
      d == SizeSkip(SizePackInto(c, c.ptr, 2), 2)
      e == SizeSkip(SizeSliceAssign(d, name.n, name.m), name.n)
  IN  SizePackInto(e, chunk_size_ptr, 4)

\* Lines 295-309.
SizeLayers(st, layers) ==
  LET loop[i \in 0..Len(layers)] == IF i = 0 THEN st ELSE SizeLayer(loop[i - 1], layers[i])
  IN  loop[Len(layers)]

\* Lines 260-309.
SizeFirst(st, s) ==
  LET a == IF s.indexed THEN SizePalette(st, s.palette) ELSE st
      b == IF HasKey(s, "tags") THEN SizeTags(a, s.tags) ELSE a
  IN  IF HasKey(s, "layers") THEN SizeLayers(b, s.layers) ELSE b

\* Lines 314-335.
SizeCel(st, compressed) ==
  LET chunk_size_ptr == st.ptr
      a == SizeSkip(st, 4)
      b == SizeSkip(SizePackInto(a, a.ptr, 11), 11 + 7)
      c == IF compressed = 0 THEN SizeSkip(SizePackInto(b, b.ptr, 2), 2)
           ELSE LET d == SizeSkip(SizePackInto(b, b.ptr, 4), 4)
                IN  SizeSkip(SizeSliceAssign(d, compressed, compressed), compressed)
  IN  SizePackInto(c, chunk_size_ptr, 4)

\* Lines 313-335.
SizeCels(st, cels) ==
  LET loop[i \in 0..Len(cels)] == IF i = 0 THEN st ELSE SizeCel(loop[i - 1], cels[i])
  IN  loop[Len(cels)]

\* Lines 252-341.
SizeFrameBody(st, s, cels, first_frame) ==
  LET frame_size_ptr == st.ptr
      a == SizeSkip(st, 4)
      b == SizePackInto(a, a.ptr, 12)
      chunk_count_ptr == a.ptr + 2
      c == SizeSkip(b, 12)
      d == IF first_frame THEN SizeFirst(c, s) ELSE c
      e == SizeCels(d, cels)
      f == SizePackInto(e, chunk_count_ptr, 2)
  IN  SizePackInto(f, frame_size_ptr, 4)

SizeRaise ==
  /\ zpc' = "error"
  /\ UNCHANGED <<zsprite, zptr, zcap, zframe>>

\* Lines 237-247.
SizeHeader ==
  /\ zpc = "header"
  /\ UNCHANGED <<wvars, rvars, err, hvars>>
  /\ LET st == SizePackInto(SizeState(BufSize, 4), 4, 32)
     IN  IF ~st.ok THEN SizeRaise
         ELSE /\ zcap' = st.cap
              /\ zptr' = st.ptr + 124
              /\ zframe' = 1
              /\ zpc' = "frames"
              /\ UNCHANGED zsprite

\* Lines 251-341: one pass of the frame loop.
SizeFrame ==
  /\ zpc = "frames"
  /\ zframe <= Len(zsprite.frames)
  /\ UNCHANGED <<wvars, rvars, err, hvars>>
  /\ LET st == SizeFrameBody(SizeState(zcap, zptr), zsprite, zsprite.frames[zframe], zframe = 1)
     IN  IF ~st.ok THEN SizeRaise
         ELSE /\ zcap' = st.cap
              /\ zptr' = st.ptr
              /\ zframe' = zframe + 1
              /\ UNCHANGED <<zsprite, zpc>>

\* Lines 344-348.
SizeFile ==
  /\ zpc = "frames"
  /\ zframe > Len(zsprite.frames)
  /\ UNCHANGED <<wvars, rvars, err, hvars>>
  /\ LET st == SizePackInto(SizeState(zcap, zptr), 0, 4)
     IN  IF ~st.ok THEN SizeRaise
         ELSE /\ zpc' = "written"
              /\ UNCHANGED <<zsprite, zptr, zcap, zframe>>

\* Sprites by sizes: a cel is linked (0) or carries compressed pixels of a
\* few bytes or of most of the bytearray.
SizeNames == {[n |-> 2, m |-> 3]}
SizeCelKinds == {0, 13, 60000}

SizeSprites ==
  {[indexed |-> ix, palette |-> npal, frames |-> fs] @@ tg @@ ly :
     ix \in BOOLEAN, npal \in {1, 3},
     fs \in SeqsUpTo(SeqsUpTo(SizeCelKinds, MaxSizeCels), MaxSizeFrames) \ {<<>>},
     tg \in Optional("tags", {<<nm>> : nm \in SizeNames}),
     ly \in Optional("layers", {<<nm>> : nm \in SizeNames})}

InitSize ==
  /\ RIdle /\ WIdle
  /\ wsprite = NoSprite /\ wpc = "idle" /\ file = <<>> /\ pc = "idle"
  /\ err = "none" /\ round = 0 /\ first = NoSprite /\ input = "none"
  /\ zsprite \in SizeSprites
  /\ zptr = 0 /\ zcap = 0 /\ zframe = 0
  /\ zpc = "header"

NextSize == SizeHeader \/ SizeFrame \/ SizeFile

SpecSize == InitSize /\ [][NextSize]_vars

\* ------------------------------------------------------------- claims
KnownTypes == {PALETTE, LAYER, TAGS, CEL}
BytesPerPixel(s) == IF s.indexed THEN 1 ELSE 4

\* The cels of a frame that carry neither pixels nor a link.
EmptyCels(f) == {j \in 1..Len(f.cels) : ~HasKey(f.cels[j], "pixels") /\ ~HasKey(f.cels[j], "linked")}

\* C1: a sprite of supported features is written and read back twice
\* without an error, and the sprite read back the second time equals the
\* sprite read back the first time.
RoundTripFixedPoint ==
  input = "written" =>
    /\ err = "none"
    /\ (pc = "done" /\ round = 1 => sprite = first)

\* C2: the palette of an indexed sprite read back from the file written for
\* it has the same entries in the same order, alpha included.
PaletteRoundTrip ==
  (input = "written" /\ round = 0 /\ pc = "done" /\ wsprite.indexed) =>
    /\ HasKey(sprite, "palette")
    /\ sprite.palette = wsprite.palette

\* C3: a chunk that is processed leaves the cursor at its start plus its
\* declared size, whatever its handler consumed; a chunk of an unknown type
\* raises nothing and leaves the sprite and the current frame as they were.
ChunkSkipKeepsSync ==
  [][(pc = "chunk" /\ chunk < chunks /\ HasBytes(data, ptr, 6)) =>
       /\ pc' # "error" => ptr' = ptr + U32(data, ptr)
       /\ U16(data, ptr + 4) \notin KnownTypes =>
            /\ pc' # "error"
            /\ sprite' = sprite
            /\ frame' = frame]_vars

\* C3 witness: a USER chunk has been skipped and the CEL chunk after it has
\* been decoded with its pixels intact.
ChunkSkipWitness ==
  /\ input = "synthetic"
  /\ pc = "done"
  /\ chunk_type = CEL
  /\ chunk = 2
  /\ ptr = Len(data)
  /\ U16(data, 128 + 16 + 4) = USER
  /\ Len(sprite.frames) = 1
  /\ Len(sprite.frames[1].cels) = 1
  /\ HasKey(sprite.frames[1].cels[1], "pixels")
  /\ sprite.frames[1].cels[1].pixels = <<0, 1>>

\* C4: a sprite is returned only if no chunk ended beyond the buffer; the
\* cursor never moves back, so it is the end of the furthest chunk.
TruncationIsError == pc = "done" => ptr <= Len(data)

\* C5: a cel without pixels and without a link is never appended to a frame
\* and never returned.
UnsupportedCelFailsClosed ==
  /\ pc = "chunk" => EmptyCels(frame) = {}
  /\ pc = "done" => \A i \in 1..Len(sprite.frames) : EmptyCels(sprite.frames[i]) = {}

\* C6: the cel appended for a compressed CEL chunk has width * height *
\* bytesPerPixel bytes of pixels.
CompressedCelSized ==
  [][(pc = "chunk" /\ chunk' = chunk + 1 /\ U16(data, ptr + 4) = CEL /\ U16(data, ptr + 6 + 7) = 2) =>
       LET cel == frame'.cels[Len(frame'.cels)]
       IN  Len(cel.pixels) = cel.w * cel.h * BytesPerPixel(sprite)]_vars

\* C7: in a sprite that is returned, a linked cel of the frame at index i
\* refers to a frame index below i.
LinkedCelBackward ==
  pc = "done" =>
    \A i \in 1..Len(sprite.frames) : \A j \in 1..Len(sprite.frames[i].cels) :
      HasKey(sprite.frames[i].cels[j], "linked") => sprite.frames[i].cels[j].linked < i - 1

\* C8: the chunk count of a frame is the 32-bit count in the last four
\* bytes of the frame record when it is not zero, else the 16-bit count.
EffectiveChunkCount ==
  [][(pc = "frame" /\ pc' = "chunk") =>
       chunks' = IF U32(data, ptr + 12) # 0 THEN U32(data, ptr + 12) ELSE U16(data, ptr + 6)]_vars

\* The chunk types a frame of the sprite s is to hold, in order.
ExpectedChunks(s, i) ==
  (IF i = 1
   THEN (IF s.indexed THEN <<PALETTE>> ELSE <<>>)
        \o (IF HasKey(s, "tags") THEN <<TAGS>> ELSE <<>>)
        \o (IF HasKey(s, "layers") THEN [k \in 1..Len(s.layers) |-> LAYER] ELSE <<>>)
   ELSE <<>>)
  \o [k \in 1..Len(s.frames[i].cels) |-> CEL]

\* Fields of a file read where they lie in it, -1 beyond its end.
Field32(d, p) == IF p >= 0 /\ HasBytes(d, p, 4) THEN U32(d, p) ELSE -1
Field16(d, p) == IF p >= 0 /\ HasBytes(d, p, 2) THEN U16(d, p) ELSE -1

\* The chunks found from offset p by following n size fields: the offset
\* after the last one, or -1 if a chunk is not of the expected type.
WalkChunks(d, p, types) ==
  LET at[k \in 0..Len(types)] ==
        IF k = 0 THEN p
        ELSE LET q == at[k - 1]
             IN  IF q < 0 \/ Field32(d, q) < 6 \/ Field16(d, q + 4) # types[k] THEN -1
                 ELSE q + Field32(d, q)
  IN  at[Len(types)]

\* The frames of the written file found by following the frame size fields:
\* each has the magic, the expected chunk count, the expected chunks tiling
\* it exactly; the offset after the last frame, or -1.
WalkFrames(d, s) ==
  LET at[i \in 0..Len(s.frames)] ==
        IF i = 0 THEN 128
        ELSE LET q == at[i - 1]
                 types == ExpectedChunks(s, i)
             IN  IF /\ q >= 0
                    /\ Field16(d, q + 4) = 61946
                    /\ Field16(d, q + 6) = Len(types)
                    /\ Field32(d, q) >= 16
                    /\ WalkChunks(d, q + 16, types) = q + Field32(d, q)
                 THEN q + Field32(d, q)
                 ELSE -1
  IN  at[Len(s.frames)]

\* C9: in a file just written every chunk size is the length of its chunk, every
\* frame size is 16 plus its chunk sizes, every chunk count is the number
\* of chunks of its frame, and the total size is 128 plus the frame sizes,
\* the length of the file.
BackPatchConsistent ==
  (wpc = "written" /\ input = "written") =>
    /\ Field32(file, 0) = Len(file)
    /\ WalkFrames(file, wsprite) = Len(file)

\* C9 witness: a file written for an indexed sprite with tags, a layer and
\* two frames, each with a cel.
BackPatchWitness ==
  /\ wpc = "written"
  /\ input = "written"
  /\ round = 0
  /\ wsprite.indexed
  /\ HasKey(wsprite, "tags")
  /\ HasKey(wsprite, "layers")
  /\ Len(wsprite.frames) = 2
  /\ Len(wsprite.frames[1].cels) = 1
  /\ Len(wsprite.frames[2].cels) = 1
  /\ HasKey(wsprite.frames[2].cels[1], "linked")
  /\ Len(file) > 128 + 16 + 16

\* C10: write_aseprite_file raises nothing, whatever the sizes of the sprite.
WriterNeverOverflows == zpc # "error"

====
